---------------------------- MODULE Spec2Model ----------------------------
(***************************************************************************)
(* Model of python-service/main.py: the two request handlers               *)
(* generate_summary (heuristic narrative, optional generative enrichment   *)
(* with quality gate and fallback) and analyze_data (column statistics,    *)
(* freshness, risks).                                                      *)
(*                                                                         *)
(* Text is modelled as a sequence of fragments.  A fragment is either a    *)
(* literal of the source (kept as an opaque string) or a run of characters *)
(* (a sequence of one-character strings) on which lower(), the regular     *)
(* expression of normalize_column_name and the substring tests operate.    *)
(***************************************************************************)
EXTENDS Integers, Sequences, FiniteSets, TLC

VARIABLES pc, op, env, payload, response, result, raisedAt,
          configureCalls, generateCalls

vars == <<pc, op, env, payload, response, result, raisedAt,
          configureCalls, generateCalls>>

-----------------------------------------------------------------------------
(* Characters and strings *)

UpperCase == <<"A","B","C","D","E","F","G","H","I","J","K","L","M",
               "N","O","P","Q","R","S","T","U","V","W","X","Y","Z">>

LowerCase == <<"a","b","c","d","e","f","g","h","i","j","k","l","m",
               "n","o","p","q","r","s","t","u","v","w","x","y","z">>

Digit == <<"0","1","2","3","4","5","6","7","8","9">>

Range(s) == {s[i] : i \in DOMAIN s}

UpperChars == Range(UpperCase)
AlnumChars == Range(LowerCase) \cup Range(Digit)

\* str.lower() on one character
LowerChar(c) ==
    IF c \in UpperChars
    THEN LowerCase[CHOOSE i \in DOMAIN UpperCase : UpperCase[i] = c]
    ELSE c

\* str.lower()
Lower(s) == [i \in DOMAIN s |-> LowerChar(s[i])]

\* the character class [a-z0-9]
IsAlnum(c) == c \in AlnumChars

\* re.sub(r"[^a-z0-9]+", "_", s): every maximal run of other characters
\* becomes one underscore
RECURSIVE SubNonAlnum(_, _)
SubNonAlnum(s, inRun) ==
    IF s = <<>> THEN <<>>
    ELSE IF IsAlnum(Head(s)) THEN <<Head(s)>> \o SubNonAlnum(Tail(s), FALSE)
    ELSE IF inRun THEN SubNonAlnum(Tail(s), TRUE)
    ELSE <<"_">> \o SubNonAlnum(Tail(s), TRUE)

RECURSIVE LStrip(_, _)
LStrip(s, c) == IF s # <<>> /\ Head(s) = c THEN LStrip(Tail(s), c) ELSE s

RECURSIVE RStrip(_, _)
RStrip(s, c) ==
    IF s # <<>> /\ s[Len(s)] = c THEN RStrip(SubSeq(s, 1, Len(s) - 1), c) ELSE s

\* str.strip(c)
Strip(s, c) == RStrip(LStrip(s, c), c)

\* normalize_column_name(name)
normalize_column_name(name) == Strip(SubNonAlnum(Lower(name), FALSE), "_")

\* t in s
Contains(s, t) ==
    \E i \in 1 .. (Len(s) - Len(t) + 1) : SubSeq(s, i, i + Len(t) - 1) = t

\* s.endswith(t)
EndsWith(s, t) ==
    Len(s) >= Len(t) /\ SubSeq(s, Len(s) - Len(t) + 1, Len(s)) = t

\* str(n) of a natural number
RECURSIVE DecimalDigits(_)
DecimalDigits(n) ==
    IF n < 10 THEN <<Digit[n + 1]>>
    ELSE DecimalDigits(n \div 10) \o <<Digit[(n % 10) + 1]>>

\* fragments of a text
Lit(s) == [lit |-> s, chars |-> <<>>]
Chars(cs) == [lit |-> "", chars |-> cs]

\* sep.join(items), items a sequence of texts, sep a text
RECURSIVE Join(_, _)
Join(sep, items) ==
    IF items = <<>> THEN <<>>
    ELSE IF Len(items) = 1 THEN items[1]
    ELSE items[1] \o sep \o Join(sep, Tail(items))

\* s[:n]
Take(s, n) == SubSeq(s, 1, IF Len(s) < n THEN Len(s) ELSE n)

-----------------------------------------------------------------------------
(* Optional values of a JSON payload *)

None == [tag |-> "None", v |-> <<>>]
Some(x) == [tag |-> "some", v |-> x]

\* str(x) for a table name: str(None) is the four characters None
StrOf(x) == IF x.tag = "None" THEN <<"N","o","n","e">> ELSE x.v

\* dict.get(key, default) on a column descriptor
Get(col, key, default) == IF key \in DOMAIN col THEN col[key] ELSE default

-----------------------------------------------------------------------------
(* build_fallback_summary: the heuristic narrative *)

\* the name tokens of the four substring tests and of the identifier test
t_id == <<"i","d">>
t_uid == <<"_","i","d">>
t_date == <<"d","a","t","e">>
t_time == <<"t","i","m","e">>
t_created == <<"c","r","e","a","t","e","d">>
t_updated == <<"u","p","d","a","t","e","d">>
t_modified == <<"m","o","d","i","f","i","e","d">>
t_amount == <<"a","m","o","u","n","t">>
t_price == <<"p","r","i","c","e">>
t_total == <<"t","o","t","a","l">>
t_balance == <<"b","a","l","a","n","c","e">>
t_cost == <<"c","o","s","t">>
t_value == <<"v","a","l","u","e">>
t_status == <<"s","t","a","t","u","s">>
t_state == <<"s","t","a","t","e">>
t_flag == <<"f","l","a","g">>
t_active == <<"a","c","t","i","v","e">>
t_enabled == <<"e","n","a","b","l","e","d">>
t_relationship == <<"r","e","l","a","t","i","o","n","s","h","i","p">>
t_mapping == <<"m","a","p","p","i","n","g">>
t_unknown == <<"u","n","k","n","o","w","n">>

TimestampTokens == {t_date, t_time, t_created, t_updated, t_modified}
AmountTokens == {t_amount, t_price, t_total, t_balance, t_cost, t_value}
StatusTokens == {t_status, t_state, t_flag, t_active, t_enabled}

\* any(token in normalize_column_name(name) for token in tokens)
AnyTokenIn(tokens, name) ==
    LET normalized == normalize_column_name(name) IN
    \E token \in tokens : Contains(normalized, token)

\* [col["name"] for col in cols]
Names(cols) == [i \in DOMAIN cols |-> cols[i].name]

primary_keys(columns) ==
    Names(SelectSeq(columns, LAMBDA col : Get(col, "isPrimaryKey", FALSE)))

foreign_keys(columns) ==
    Names(SelectSeq(columns, LAMBDA col : Get(col, "isForeignKey", FALSE)))

\* identifier test by substring instead of suffix
id_columns_by_substring(columns) ==
    Names(SelectSeq(columns, LAMBDA col :
        Contains(normalize_column_name(col.name), t_id)))

id_columns(columns) ==
    Names(SelectSeq(columns, LAMBDA col :
        LET normalized == normalize_column_name(col.name) IN
        EndsWith(normalized, t_uid) \/ normalized = t_id))

timestamp_columns(columns) ==
    Names(SelectSeq(columns, LAMBDA col : AnyTokenIn(TimestampTokens, col.name)))

amount_columns(columns) ==
    Names(SelectSeq(columns, LAMBDA col : AnyTokenIn(AmountTokens, col.name)))

status_columns(columns) ==
    Names(SelectSeq(columns, LAMBDA col : AnyTokenIn(StatusTokens, col.name)))

\* ', '.join(names) as a text
CommaJoin(names) ==
    Join(<<Lit(", ")>>, [i \in DOMAIN names |-> <<Chars(names[i])>>])

RelationshipText ==
    "This table appears to work as a relationship/bridge table because its name and schema suggest links between business entities."

EntityText ==
    "This table appears to capture a core business entity or transaction record used by operational workflows."

relationship_signal(normalized_table) ==
    IF Contains(normalized_table, t_relationship) \/ Contains(normalized_table, t_mapping)
    THEN <<Lit(RelationshipText)>>
    ELSE <<Lit(EntityText)>>

NoPrimaryKeyText ==
    "No explicit primary key was detected in metadata, so uniqueness may depend on a composite business key. "

NoForeignKeyText ==
    "No foreign key constraints were found, so relationships may be managed in application logic."

key_structure(pks, fks) ==
    (IF pks # <<>>
     THEN <<Lit("Primary key columns: ")>> \o CommaJoin(pks) \o <<Lit(". ")>>
     ELSE <<Lit(NoPrimaryKeyText)>>)
    \o
    (IF fks # <<>>
     THEN <<Lit("Foreign key columns: ")>> \o CommaJoin(fks) \o <<Lit(".")>>
     ELSE <<Lit(NoForeignKeyText)>>)

analytics_use ==
    <<Lit("Likely reporting usage includes entity counts over time, status distribution analysis, and relationship integrity checks across linked tables.")>>

TimestampLimit == 6
AmountLimit == 6
StatusLimit == 6
IdLimit == 8
PreviewLimit == 12

TimestampSignal(names) ==
    <<Lit("Lifecycle tracking is likely available through timestamp-like columns (")>>
    \o CommaJoin(Take(names, TimestampLimit)) \o <<Lit(").")>>

AmountSignal(names) ==
    <<Lit("Financial or numeric performance measures may be present via amount/value columns (")>>
    \o CommaJoin(Take(names, AmountLimit)) \o <<Lit(").")>>

StatusSignal(names) ==
    <<Lit("Process-state monitoring is likely possible using status/flag columns (")>>
    \o CommaJoin(Take(names, StatusLimit)) \o <<Lit(").")>>

IdSignal(names) ==
    <<Lit("Entity linkage and drill-down reporting can use identifier columns (")>>
    \o CommaJoin(Take(names, IdLimit)) \o <<Lit(").")>>

signals(columns) ==
    LET ts == timestamp_columns(columns)
        am == amount_columns(columns)
        st == status_columns(columns)
        ids == id_columns(columns)
    IN (IF ts # <<>> THEN <<TimestampSignal(ts)>> ELSE <<>>)
       \o (IF am # <<>> THEN <<AmountSignal(am)>> ELSE <<>>)
       \o (IF st # <<>> THEN <<StatusSignal(st)>> ELSE <<>>)
       \o (IF ids # <<>> THEN <<IdSignal(ids)>> ELSE <<>>)

\* f"{col['name']} ({col.get('type', 'unknown')})"
PreviewItem(col) ==
    <<Chars(col.name), Lit(" ("), Chars(Get(col, "type", t_unknown)), Lit(")")>>

\* the preview without the marker of omitted columns
column_preview_unmarked(columns) ==
    Join(<<Lit(", ")>>,
         [i \in DOMAIN Take(columns, PreviewLimit) |-> PreviewItem(columns[i])])

column_preview(columns) ==
    Join(<<Lit(", ")>>,
         [i \in DOMAIN Take(columns, PreviewLimit) |-> PreviewItem(columns[i])])
    \o (IF Len(columns) > PreviewLimit THEN <<Lit(", ...")>> ELSE <<>>)

LeadSentence(table_name, columns) ==
    <<Lit("Table '"), Chars(StrOf(table_name)), Lit("' contains "),
      Chars(DecimalDigits(Len(columns))),
      Lit(" columns and is likely part of the business data model used for downstream analytics and operational reporting.")>>

PreviewSentence(columns) ==
    LET preview == column_preview(columns) IN
    <<Lit("Schema preview: ")>>
    \o (IF preview # <<>> THEN preview
        ELSE <<Lit("No columns were provided in the payload.")>>)

RecommendedChecks ==
    <<Lit("Recommended checks: validate key uniqueness, monitor null rates on business-critical fields, and confirm referential consistency with parent tables before using this table in executive dashboards.")>>

summary_parts(table_name, columns) ==
    << LeadSentence(table_name, columns),
       relationship_signal(normalize_column_name(StrOf(table_name))),
       key_structure(primary_keys(columns), foreign_keys(columns)),
       PreviewSentence(columns) >>
    \o signals(columns)
    \o << analytics_use, RecommendedChecks >>

\* What a call returns: a value, or an exception that leaves the function
Returned(x) == [raised |-> FALSE, value |-> x]
Raised == [raised |-> TRUE, value |-> <<>>]

\* build_fallback_summary(table_name, columns); columns is an optional list:
\* iterating None at the first comprehension raises TypeError
build_fallback_summary(table_name, columns) ==
    IF columns.tag = "None" THEN Raised
    ELSE Returned(Join(<<Lit(" ")>>, summary_parts(table_name, columns.v)))

-----------------------------------------------------------------------------
(* Requests of GenerateSummary *)

n_user_id == <<"u","s","e","r">> \o t_uid
n_role_id == <<"r","o","l","e">> \o t_uid
n_Created_At == <<"C","r","e","a","t","e","d"," ","A","t">>
n_updated_balance == t_updated \o <<"_">> \o t_balance
n_is_active == <<"i","s","_">> \o t_active
n_Total_Cost == <<"T","o","t","a","l","-","C","o","s","t">>
n_state_id == t_state \o t_uid
n_paid == <<"p","a","i","d">>
n_candidate == <<"c","a","n","d","i">> \o t_date
n_modified_value_flag_id ==
    t_modified \o <<"_">> \o t_value \o <<"_">> \o t_flag \o t_uid
n_Order_value_flag_ID ==
    <<"O","r","d","e","r","."," ">> \o t_value \o <<" ">> \o t_flag
    \o <<" ","-"," ","I","D"," ">>
n_time_price_status_id ==
    t_time \o <<"_">> \o t_price \o <<"_">> \o t_status \o t_uid
n_date_amount_enabled_id ==
    t_date \o <<"_">> \o t_amount \o <<"_">> \o t_enabled \o t_uid

ty_int == <<"i","n","t">>
ty_varchar == <<"v","a","r","c","h","a","r">>
ty_timestamp == t_time \o <<"s","t","a","m","p">>

\* Column descriptors of requests; optional fields are present in some only
Catalog ==
    << [name |-> t_id],
       [name |-> n_user_id],
       [name |-> n_role_id],
       [name |-> n_Created_At, type |-> ty_varchar, isPrimaryKey |-> FALSE],
       [name |-> n_updated_balance, type |-> ty_int],
       [name |-> n_is_active, isForeignKey |-> FALSE],
       [name |-> n_Total_Cost, type |-> ty_int, isPrimaryKey |-> FALSE,
        isForeignKey |-> FALSE],
       [name |-> n_state_id, type |-> ty_int, isForeignKey |-> TRUE],
       [name |-> n_paid, type |-> ty_timestamp, isPrimaryKey |-> TRUE],
       [name |-> n_candidate, isPrimaryKey |-> TRUE, isForeignKey |-> TRUE],
       [name |-> n_modified_value_flag_id, type |-> ty_int],
       [name |-> n_Order_value_flag_ID, type |-> ty_int, isForeignKey |-> TRUE],
       [name |-> n_time_price_status_id],
       [name |-> n_date_amount_enabled_id, type |-> ty_varchar] >>

\* the longest column list of a request
MaxCols == 16

\* len consecutive descriptors of the catalog from position i, wrapping around
Window(i, len) ==
    [k \in 1 .. len |-> Catalog[((i + k - 2) % Len(Catalog)) + 1]]

ColumnLists ==
    {Window(i, len) : i \in 1 .. Len(Catalog), len \in 0 .. MaxCols}

tn_user_role_mapping == <<"u","s","e","r","_","r","o","l","e","_">> \o t_mapping
tn_Customer_Relationships ==
    <<"C","u","s","t","o","m","e","r"," ","R","e","l","a","t","i","o","n","s","h","i","p","s">>
tn_orders == <<"o","r","d","e","r","s">>

TableNames == {Some(tn_user_role_mapping), Some(tn_Customer_Relationships),
               Some(tn_orders), None}

\* inputs of build_fallback_summary
\* a JSON field that is absent from the payload
Missing == [tag |-> "missing", v |-> <<>>]

NarrativeInputs ==
    [tableName : TableNames,
     columns : {Some(c) : c \in ColumnLists} \cup {None},
     rows : {Missing}]

\* payload.get(key) and payload.get(key, default)
PayloadGet(field, default) == IF field.tag = "missing" THEN default ELSE field

\* payloads of /generate-summary: columns missing, null, empty and lists
SummaryPayloads ==
    [tableName : {Some(tn_user_role_mapping), Some(tn_orders), Missing},
     columns : {Missing, None, Some(<<>>), Some(Window(1, 3)), Some(Window(8, 3))},
     rows : {Missing}]

-----------------------------------------------------------------------------
(* The external text-generation service and its responses *)

\* A string of a response part, up to its whitespace structure: whether it
\* starts and ends with whitespace and how many whitespace-separated words it
\* holds.  The empty string has no words and no whitespace.
EmptyStr == [lead |-> FALSE, words |-> 0, trail |-> FALSE]
Blank == [lead |-> TRUE, words |-> 0, trail |-> TRUE]
IsEmptyStr(t) == t.words = 0 /\ ~t.lead /\ ~t.trail

\* a + b: the last word of a and the first word of b merge into one word
\* when no whitespace separates them
ConcatStr(a, b) ==
    IF IsEmptyStr(a) THEN b
    ELSE IF IsEmptyStr(b) THEN a
    ELSE [lead |-> a.lead,
          words |-> a.words + b.words
                    - (IF a.words > 0 /\ b.words > 0 /\ ~a.trail /\ ~b.lead
                       THEN 1 ELSE 0),
          trail |-> b.trail]

\* "".join(texts)
RECURSIVE JoinStr(_)
JoinStr(texts) ==
    IF texts = <<>> THEN EmptyStr ELSE ConcatStr(Head(texts), JoinStr(Tail(texts)))

\* s.strip()
StripStr(t) == [lead |-> FALSE, words |-> t.words, trail |-> FALSE]

\* len(s.split())
WordCount(t) == t.words

\* the most parts a response candidate holds
MaxParts == 2

WordCounts == {1, 45, 89}

\* parts of a candidate's content: without a text attribute, or with a text
Parts ==
    {[hasText |-> FALSE, text |-> EmptyStr],
     [hasText |-> TRUE, text |-> EmptyStr],
     [hasText |-> TRUE, text |-> Blank]}
    \cup {[hasText |-> TRUE, text |-> [lead |-> l, words |-> w, trail |-> t]] :
            l \in BOOLEAN, w \in WordCounts, t \in BOOLEAN}

PartLists == UNION {[1 .. n -> Parts] : n \in 0 .. MaxParts}

\* responses of generate_content: one whose candidates or parts cannot be
\* read (the access raises), one without candidates, and one with a first
\* candidate
NoResponse == [kind |-> "none", parts |-> <<>>]
Responses ==
    {[kind |-> "unreadable", parts |-> <<>>],
     [kind |-> "no_candidates", parts |-> <<>>]}
    \cup {[kind |-> "candidates", parts |-> ps] : ps \in PartLists}

\* "".join(part.text for part in parts if hasattr(part, "text") and part.text).strip()
ExtractText(parts) ==
    LET kept == SelectSeq(parts, LAMBDA part : part.hasText /\ ~IsEmptyStr(part.text))
    IN StripStr(JoinStr([i \in DOMAIN kept |-> kept[i].text]))

\* summary after lines 167-172
ExtractSummary(resp) ==
    IF resp.kind = "candidates" THEN ExtractText(resp.parts) ELSE EmptyStr

MinWords == 90

\* the gate with the threshold taken as exclusive
GateRejectsAtThreshold(summary) ==
    IsEmptyStr(summary) \/ WordCount(summary) <= MinWords

\* not summary or len(summary.split()) < 90
GateRejects(summary) == IsEmptyStr(summary) \/ WordCount(summary) < MinWords

-----------------------------------------------------------------------------
(* generate_summary *)

\* process environment: GEMINI_API_KEY and the state of google.generativeai
Credentials == {"unset", "empty", "set"}
Libraries == {"installed", "not_found", "no_parent_package", "import_fails"}

NoResult == [tableName |-> None, kind |-> "none", words |-> 0, text |-> <<>>]

\* businessSummary values: the heuristic narrative, or the generated text
Heuristic(text) == [kind |-> "heuristic", words |-> 0, text |-> text]
Generated(summary) == [kind |-> "generated", words |-> WordCount(summary), text |-> <<>>]

table_name == PayloadGet(payload.tableName, None)
columns == PayloadGet(payload.columns, Some(<<>>))

NoPayload == [tableName |-> Missing, columns |-> Missing, rows |-> Missing]

\* return {"tableName": ..., "businessSummary": build_fallback_summary(...)};
\* an exception of build_fallback_summary leaves the handler
ReturnFallback ==
    LET fb == build_fallback_summary(table_name, columns) IN
    IF fb.raised
    THEN /\ pc' = "raised"
         /\ raisedAt' = "build_fallback_summary"
         /\ result' = NoResult
    ELSE /\ pc' = "done"
         /\ raisedAt' = "none"
         /\ result' = [tableName |-> table_name] @@ Heuristic(fb.value)

\* an exception outside the try block leaves the handler
Raise(where) ==
    /\ pc' = "raised"
    /\ raisedAt' = where
    /\ result' = NoResult

ReceiveGenerateSummary ==
    /\ pc = "idle"
    /\ \E p \in SummaryPayloads : payload' = p
    /\ op' = "generate_summary"
    /\ pc' = "gs_check_key"
    /\ UNCHANGED <<env, response, result, raisedAt, configureCalls, generateCalls>>

\* if not gemini_api_key: return fallback
GS_CheckKey ==
    /\ pc = "gs_check_key"
    /\ IF env.credential # "set"
       THEN ReturnFallback
       ELSE pc' = "gs_find_spec" /\ UNCHANGED <<result, raisedAt>>
    /\ UNCHANGED <<op, env, payload, response, configureCalls, generateCalls>>

\* if importlib.util.find_spec("google.generativeai") is None: return fallback.
\* find_spec imports the parent package and raises ModuleNotFoundError when
\* there is none.
GS_FindSpec ==
    /\ pc = "gs_find_spec"
    /\ IF env.library = "not_found" THEN ReturnFallback
       ELSE IF env.library = "no_parent_package" THEN Raise("find_spec")
       ELSE pc' = "gs_import" /\ UNCHANGED <<result, raisedAt>>
    /\ UNCHANGED <<op, env, payload, response, configureCalls, generateCalls>>

\* genai = importlib.import_module("google.generativeai")
GS_Import ==
    /\ pc = "gs_import"
    /\ IF env.library = "import_fails" THEN Raise("import_module")
       ELSE pc' = "gs_configure" /\ UNCHANGED <<result, raisedAt>>
    /\ UNCHANGED <<op, env, payload, response, configureCalls, generateCalls>>

\* genai.configure(api_key=gemini_api_key), outside the try block
GS_Configure ==
    /\ pc = "gs_configure"
    /\ configureCalls' = configureCalls + 1
    /\ \E ok \in BOOLEAN :
          IF ok THEN pc' = "gs_model" /\ UNCHANGED <<result, raisedAt>>
          ELSE Raise("configure")
    /\ UNCHANGED <<op, env, payload, response, generateCalls>>

\* model = genai.GenerativeModel(gemini_model), inside the try block
GS_Model ==
    /\ pc = "gs_model"
    /\ \E ok \in BOOLEAN :
          IF ok THEN pc' = "gs_generate" /\ UNCHANGED <<result, raisedAt>>
          ELSE ReturnFallback
    /\ UNCHANGED <<op, env, payload, response, configureCalls, generateCalls>>

\* response = model.generate_content(prompt): the request is sent; no
\* timeout is passed with the call
GS_Generate ==
    /\ pc = "gs_generate"
    /\ generateCalls' = generateCalls + 1
    /\ pc' = "gs_awaiting"
    /\ UNCHANGED <<op, env, payload, response, result, raisedAt, configureCalls>>

\* the external service answers
ServiceResponds ==
    /\ pc = "gs_awaiting"
    /\ \E r \in Responses : response' = r
    /\ pc' = "gs_extract"
    /\ UNCHANGED <<op, env, payload, result, raisedAt, configureCalls, generateCalls>>

\* a failed call that is attempted again
ServiceFailsAndRetries ==
    /\ pc = "gs_awaiting"
    /\ generateCalls < 3
    /\ pc' = "gs_generate"
    /\ UNCHANGED <<op, env, payload, response, result, raisedAt,
                   configureCalls, generateCalls>>

\* the call raises (transport or API failure): except Exception returns the
\* fallback
ServiceFails ==
    /\ pc = "gs_awaiting"
    /\ ReturnFallback
    /\ UNCHANGED <<op, env, payload, response, configureCalls, generateCalls>>

\* lines 167-186: extraction, quality gate, return
GS_Extract ==
    /\ pc = "gs_extract"
    /\ IF response.kind = "unreadable" THEN ReturnFallback
       ELSE LET summary == ExtractSummary(response) IN
            IF GateRejects(summary) THEN ReturnFallback
            ELSE /\ pc' = "done"
                 /\ raisedAt' = "none"
                 /\ result' = [tableName |-> table_name] @@ Generated(summary)
    /\ UNCHANGED <<op, env, payload, response, configureCalls, generateCalls>>

-----------------------------------------------------------------------------
(* analyze_data: the DataFrame of the rows *)

\* cell values: JSON null, scalars of one comparable type, a scalar of
\* another type (not comparable with the first), and a non-scalar (a list)
Null == [t |-> "null", v |-> 0]
Scalar(n) == [t |-> "scalar", v |-> n]
OtherScalar == [t |-> "other", v |-> 0]
ListValue == [t |-> "list", v |-> 0]

\* a row is a mapping in key order: a sequence of [k |-> key, v |-> value]
\* with distinct keys
RowKeys(row) == [i \in DOMAIN row |-> row[i].k]

\* the keys of ks that are not in seen, in order, without duplicates
RECURSIVE NewKeys(_, _)
NewKeys(ks, seen) ==
    IF ks = <<>> THEN <<>>
    ELSE IF Head(ks) \in seen THEN NewKeys(Tail(ks), seen)
    ELSE <<Head(ks)>> \o NewKeys(Tail(ks), seen \cup {Head(ks)})

\* pd.DataFrame(rows).columns: the union of the rows' keys in order of first
\* appearance
RECURSIVE df_columns(_)
df_columns(rows) ==
    IF rows = <<>> THEN <<>>
    ELSE LET before == df_columns(SubSeq(rows, 1, Len(rows) - 1)) IN
         before \o NewKeys(RowKeys(rows[Len(rows)]), Range(before))

\* df[col][i]: the row's value, NaN where the row lacks the key
Cell(row, col) ==
    IF \E i \in DOMAIN row : row[i].k = col
    THEN row[CHOOSE i \in DOMAIN row : row[i].k = col].v
    ELSE Null

\* df[col]
Column(rows, col) == [i \in DOMAIN rows |-> Cell(rows[i], col)]

\* df.empty: no rows or no columns
df_empty(rows) == Len(rows) = 0 \/ df_columns(rows) = <<>>

\* series.notnull().sum()
NotNullCount(series) == Cardinality({i \in DOMAIN series : series[i] # Null})

\* nunique that counts NaN as a value
NUniqueWithNull(series) == Cardinality(Range(series))

\* series.nunique(): distinct non-null values
NUnique(series) == Cardinality(Range(series) \ {Null})

\* hashing a list raises TypeError in nunique
NUniqueRaises(series) == ListValue \in Range(series)

\* round(count / n * 100, 2), in hundredths of a percent.  count * 10000 / n
\* is never half-way between two integers for n < 32.
RoundedPercent(count, n) == (2 * 10000 * count + n) \div (2 * n)

\* column_metrics (lines 237-250)
column_metrics(rows) ==
    IF df_empty(rows) THEN <<>>
    ELSE [i \in DOMAIN df_columns(rows) |->
            LET col == df_columns(rows)[i] IN
            [column |-> col,
             completeness |-> RoundedPercent(NotNullCount(Column(rows, col)), Len(rows)),
             uniqueness |-> RoundedPercent(NUnique(Column(rows, col)), Len(rows))]]

column_metrics_raises(rows) ==
    /\ ~df_empty(rows)
    /\ \E i \in DOMAIN df_columns(rows) :
          NUniqueRaises(Column(rows, df_columns(rows)[i]))

\* repr of a rounded percentage: 0.0, 33.33, 12.5, 100.0
FormatPercent(h) ==
    DecimalDigits(h \div 100) \o <<".">>
    \o (IF h % 10 = 0 THEN DecimalDigits((h % 100) \div 10)
        ELSE <<Digit[((h % 100) \div 10) + 1], Digit[(h % 10) + 1]>>)

-----------------------------------------------------------------------------
(* Freshness *)

c_created_at == t_created \o <<"_","a","t">>
c_created_on == t_created \o <<"_","o","n">>
c_updated_at == t_updated \o <<"_","a","t">>
c_last_updated == <<"l","a","s","t","_">> \o t_updated
c_modified_date == t_modified \o <<"_">> \o t_date
c_modified_on == t_modified \o <<"_","o","n">>
c_created == t_created
c_created_date == t_created \o <<"_">> \o t_date
c_last_updated_date == c_last_updated \o <<"_">> \o t_date

timestamp_candidates ==
    {c_created_at, c_created_on, c_updated_at, c_last_updated, c_modified_date,
     c_modified_on, c_created, c_created_date, c_last_updated_date}

\* detection by substring instead of exact match
RECURSIVE FirstCandidateBySubstring(_)
FirstCandidateBySubstring(cols) ==
    IF cols = <<>> THEN None
    ELSE IF \E c \in timestamp_candidates : Contains(Lower(Head(cols)), c)
         THEN Some(Head(cols))
    ELSE FirstCandidateBySubstring(Tail(cols))

\* detect_timestamp_column(df): the first column whose lowercased name is a
\* candidate, or None
RECURSIVE FirstCandidate(_)
FirstCandidate(cols) ==
    IF cols = <<>> THEN None
    ELSE IF Lower(Head(cols)) \in timestamp_candidates THEN Some(Head(cols))
    ELSE FirstCandidate(Tail(cols))

detect_timestamp_column_by_substring(rows) ==
    FirstCandidateBySubstring(df_columns(rows))

detect_timestamp_column(rows) == FirstCandidate(df_columns(rows))

\* the non-null values of a series
Present(series) == Range(series) \ {Null}

\* series.max() compares values of different types: TypeError
MaxRaises(series) == \E x, y \in Present(series) : x.t # y.t

\* series.max(): the largest non-null value, NaN when there is none
Max(series) ==
    IF Present(series) = {} THEN Null
    ELSE CHOOSE x \in Present(series) : \A y \in Present(series) : y.v <= x.v

\* str(value)
StrValue(x) == <<Chars(DecimalDigits(x.v))>>

\* freshness_info (lines 255-267)
freshness_info(rows) ==
    LET timestamp_column == detect_timestamp_column(rows) IN
    IF timestamp_column # None /\ ~df_empty(rows)
    THEN LET last_updated == Max(Column(rows, timestamp_column.v)) IN
         IF last_updated # Null
         THEN [lastUpdated |-> Some(StrValue(last_updated)), status |-> "ACTIVE"]
         ELSE [lastUpdated |-> None, status |-> "NO DATA"]
    ELSE [lastUpdated |-> None, status |-> "NO TIMESTAMP"]

freshness_raises(rows) ==
    LET timestamp_column == detect_timestamp_column(rows) IN
    /\ timestamp_column # None
    /\ ~df_empty(rows)
    /\ MaxRaises(Column(rows, timestamp_column.v))

-----------------------------------------------------------------------------
(* Risks *)

\* the arrow of the two fixed findings is written -> here
NoDataRisk == <<Lit("Table contains no data -> Dataset inactive")>>

NoTimestampRisk == <<Lit("No timestamp column detected -> Freshness unavailable")>>

LowCompletenessRisk(metric) ==
    <<Lit("Column '"), Chars(metric.column), Lit("' has low completeness ("),
      Chars(FormatPercent(metric.completeness)), Lit("%)")>>

LowUniquenessRisk(metric) ==
    <<Lit("Column '"), Chars(metric.column), Lit("' has very low uniqueness ("),
      Chars(FormatPercent(metric.uniqueness)), Lit("%)")>>

CompletenessThreshold == 50
UniquenessThreshold == 10

\* the two checks as a chain: the second only when the first does not fire
MetricRisksChained(metric) ==
    IF metric.completeness < CompletenessThreshold * 100
    THEN <<LowCompletenessRisk(metric)>>
    ELSE IF metric.uniqueness < UniquenessThreshold * 100
    THEN <<LowUniquenessRisk(metric)>>
    ELSE <<>>

\* the findings of one metric (lines 278-288); thresholds in hundredths
MetricRisks(metric) ==
    (IF metric.completeness < CompletenessThreshold * 100
     THEN <<LowCompletenessRisk(metric)>> ELSE <<>>)
    \o (IF metric.uniqueness < UniquenessThreshold * 100
        THEN <<LowUniquenessRisk(metric)>> ELSE <<>>)

RECURSIVE AllMetricRisks(_)
AllMetricRisks(metrics) ==
    IF metrics = <<>> THEN <<>>
    ELSE MetricRisks(Head(metrics)) \o AllMetricRisks(Tail(metrics))

\* risks (lines 272-291)
risks(rows, metrics, freshness) ==
    (IF df_empty(rows) THEN <<NoDataRisk>> ELSE <<>>)
    \o AllMetricRisks(metrics)
    \o (IF freshness.status = "NO TIMESTAMP" THEN <<NoTimestampRisk>> ELSE <<>>)

-----------------------------------------------------------------------------
(* Requests of AnalyzeData *)

k_created_at_utc == c_created_at \o <<"_","u","t","c">>
k_Created_At == <<"C","r","e","a","t","e","d","_","A","t">>
k_updated_at == c_updated_at

RowKeyNames == {k_created_at_utc, k_Created_At, k_updated_at}

\* the most rows of a dataset whose rows share their keys
MaxRows == 3
\* the most rows of a dataset whose rows differ in their keys
MaxHetRows == 2
\* the most copies of one row in a dataset
MaxRepeat == 11

\* the rows with the keys ks, in this order, and values of vs
RowsOver(ks, vs) ==
    {[i \in DOMAIN ks |-> [k |-> ks[i], v |-> f[i]]] : f \in [DOMAIN ks -> vs]}

\* the key orders of at most two distinct keys
KeyOrders ==
    {<<>>} \cup {<<a>> : a \in RowKeyNames}
    \cup {ks \in {<<a, b>> : a \in RowKeyNames, b \in RowKeyNames} : ks[1] # ks[2]}

SeqsUpTo(S, n) == UNION {[1 .. m -> S] : m \in 0 .. n}

HomogeneousDatasets ==
    UNION {SeqsUpTo(RowsOver(ks, {Null, Scalar(1), Scalar(2)}), MaxRows) :
             ks \in {<<k_Created_At, k_created_at_utc>>,
                     <<k_created_at_utc, k_updated_at>>}}

HetRows == UNION {RowsOver(ks, {Null, Scalar(1)}) : ks \in KeyOrders}

HeterogeneousDatasets == SeqsUpTo(HetRows, MaxHetRows)

RepeatedDatasets == {[i \in 1 .. n |-> row] : row \in HetRows, n \in 1 .. MaxRepeat}

\* datasets with values of mixed or non-scalar type in one column
MixedRows ==
    UNION {RowsOver(<<k>>, {Scalar(1), OtherScalar, ListValue}) :
             k \in {k_created_at_utc, k_Created_At}}

MixedDatasets == SeqsUpTo(MixedRows, 2) \ {<<>>}

Datasets ==
    HomogeneousDatasets \cup HeterogeneousDatasets \cup RepeatedDatasets
    \cup MixedDatasets

AnalyzePayloads ==
    [tableName : {Some(tn_orders)},
     columns : {Missing},
     rows : {Some(d) : d \in Datasets}]

\* payloads of /analyze-data with missing or malformed fields
MalformedAnalyzePayloads ==
    [tableName : {Some(tn_orders), Missing},
     columns : {Missing},
     rows : {Missing, None, Some(<<>>)} \cup {Some(d) : d \in MixedDatasets}]

\* rows = payload.get("rows", []); pd.DataFrame(None) is the empty frame
RowsOf(p) ==
    LET rows == PayloadGet(p.rows, Some(<<>>)) IN
    IF rows.tag = "None" THEN <<>> ELSE rows.v

-----------------------------------------------------------------------------
(* analyze_data and the server loop *)

AnalysisReport(p) ==
    LET rows == RowsOf(p)
        metrics == column_metrics(rows)
        freshness == freshness_info(rows)
    IN [tableName |-> PayloadGet(p.tableName, None),
        metrics |-> metrics,
        freshness |-> freshness,
        risks |-> risks(rows, metrics, freshness)]

\* analyze_data(payload), payload one of payloads: one synchronous computation
AnalyzeDataOf(payloads) ==
    /\ pc = "idle"
    /\ \E p \in payloads :
          /\ payload' = p
          /\ IF column_metrics_raises(RowsOf(p)) THEN Raise("nunique")
             ELSE IF freshness_raises(RowsOf(p)) THEN Raise("max")
             ELSE /\ pc' = "done"
                  /\ raisedAt' = "none"
                  /\ result' = AnalysisReport(p)
    /\ op' = "analyze_data"
    /\ UNCHANGED <<env, response, configureCalls, generateCalls>>

\* the response (or the error) is sent; the next request starts afresh
Return ==
    /\ pc \in {"done", "raised"}
    /\ pc' = "idle"
    /\ op' = "none"
    /\ payload' = NoPayload
    /\ response' = NoResponse
    /\ result' = NoResult
    /\ raisedAt' = "none"
    /\ configureCalls' = 0
    /\ generateCalls' = 0
    /\ UNCHANGED env

AnalyzeMalformed == AnalyzeDataOf(MalformedAnalyzePayloads)

AnalyzeData == AnalyzeDataOf(AnalyzePayloads)

Init ==
    /\ pc = "idle"
    /\ op = "none"
    /\ env \in [credential : Credentials, library : Libraries]
    /\ payload = NoPayload
    /\ response = NoResponse
    /\ result = NoResult
    /\ raisedAt = "none"
    /\ configureCalls = 0
    /\ generateCalls = 0

\* the steps of the handlers themselves
ProgramStep ==
    \/ ReceiveGenerateSummary
    \/ GS_CheckKey
    \/ GS_FindSpec
    \/ GS_Import
    \/ GS_Configure
    \/ GS_Model
    \/ GS_Generate
    \/ GS_Extract
    \/ AnalyzeMalformed
    \/ Return

Next ==
    \/ ProgramStep
    \/ ServiceResponds
    \/ ServiceFails

Spec == Init /\ [][Next]_vars

\* the positions at which the next step is the handler's own
HandlerPcs ==
    {"gs_check_key", "gs_find_spec", "gs_import", "gs_configure", "gs_model",
     "gs_generate", "gs_extract", "done", "raised"}

PcValues == HandlerPcs \cup {"idle", "gs_awaiting"}

\* the handler leaves its current position
HandlerAdvance == pc \in HandlerPcs /\ pc' \in PcValues

\* A handler that has started always takes its next step (the interpreter
\* runs it to its next call or return); nothing obliges a client to send a
\* request, nor the external service to answer or to fail.
FairSpec == Spec /\ WF_pc(HandlerAdvance)

\* build_fallback_summary as a function of its inputs
InitNarrative ==
    /\ pc = "build"
    /\ op = "build_fallback_summary"
    /\ env = [credential |-> "unset", library |-> "not_found"]
    /\ payload \in NarrativeInputs
    /\ response = NoResponse
    /\ result = NoResult
    /\ raisedAt = "none"
    /\ configureCalls = 0
    /\ generateCalls = 0

BuildNarrative ==
    /\ pc = "build"
    /\ ReturnFallback
    /\ UNCHANGED <<op, env, payload, response, configureCalls, generateCalls>>

SpecNarrative == InitNarrative /\ [][BuildNarrative]_vars

\* analyze_data over the datasets
InitAnalyze ==
    /\ Init
    /\ env = [credential |-> "unset", library |-> "not_found"]

NextAnalyze == AnalyzeData \/ Return

SpecAnalyze == InitAnalyze /\ [][NextAnalyze]_vars

-----------------------------------------------------------------------------
(* Properties of generate_summary *)

\* the response of a finished GenerateSummary request that used the fallback
FallbackResult ==
    [tableName |-> table_name]
    @@ Heuristic(build_fallback_summary(table_name, columns).value)

ExternalSteps == {"find_spec", "import_module", "configure"}

\* C1: with a credential configured, no failure of the external service at
\* any step of its use (loading the client library, configuring the client,
\* constructing the model, the call, reading the response) leaves the
\* handler as an exception.
C1_NeverFailsObservably ==
    (op = "generate_summary" /\ env.credential = "set")
        => ~(pc = "raised" /\ raisedAt \in ExternalSteps)

\* the text was taken from the external response
TextKept ==
    /\ env.credential = "set"
    /\ env.library = "installed"
    /\ response.kind = "candidates"
    /\ WordCount(ExtractSummary(response)) >= 90

\* C2: a returned businessSummary is the text extracted from the external
\* response exactly when a credential is configured, the library is
\* available, the call succeeded and the stripped text has at least 90
\* words; in every other case it is the heuristic narrative of the same
\* inputs.  90 words are kept, 89 are discarded.
C2_QualityGate ==
    (op = "generate_summary" /\ pc = "done") =>
        IF TextKept
        THEN /\ result.kind = "generated"
             /\ result.words = WordCount(ExtractSummary(response))
             /\ result.tableName = table_name
        ELSE result = FallbackResult

\* C2 witness: a response of exactly 90 words made of two parts is kept
C2_Witness ==
    /\ op = "generate_summary"
    /\ pc = "done"
    /\ result.kind = "generated"
    /\ result.words = 90
    /\ Len(response.parts) = 2

\* C3: without a credential or with the library unavailable neither the
\* client configuration nor the generate call is attempted; otherwise the
\* generate call is attempted at most once per request, also after a failed
\* attempt.
C3_CallBudget ==
    op = "generate_summary" =>
        /\ generateCalls <= 1
        /\ configureCalls <= 1
        /\ (env.credential # "set" \/ env.library # "installed")
              => (generateCalls = 0 /\ configureCalls = 0)

\* C3 witness: one failed attempt, then the heuristic narrative
C3_Witness ==
    /\ op = "generate_summary"
    /\ pc = "done"
    /\ generateCalls = 1
    /\ response = NoResponse
    /\ result = FallbackResult

\* C4: every GenerateSummary request whose generate call was sent
\* eventually returns, even when the external service never answers.
C4_EventuallyReturns ==
    (pc = "gs_awaiting") ~> (pc \in {"done", "raised"})

PayloadSteps == {"build_fallback_summary", "nunique", "max"}

\* C8: no request payload with missing or malformed fields makes a handler
\* raise: both operations always return a well-formed result.
C8_NoFatalError == ~(pc = "raised" /\ raisedAt \in PayloadSteps)

-----------------------------------------------------------------------------
(* Properties of analyze_data *)

AnalyzeReturned == op = "analyze_data" /\ pc = "done"

\* the rows of the request and their number
ReqRows == RowsOf(payload)
N == Len(ReqRows)

\* the keys that occur in at least one row
KeysOf(rows) == UNION {Range(RowKeys(rows[i])) : i \in DOMAIN rows}

HasKey(row, key) == \E j \in DOMAIN row : row[j].k = key

\* the first row that has the key, and the key's place in that row
FirstRow(rows, key) ==
    CHOOSE i \in DOMAIN rows :
        HasKey(rows[i], key) /\ \A h \in 1 .. (i - 1) : ~HasKey(rows[h], key)
PlaceIn(row, key) == CHOOSE j \in DOMAIN row : row[j].k = key

\* key a appears before key b across the row sequence
AppearsBefore(rows, a, b) ==
    \/ FirstRow(rows, a) < FirstRow(rows, b)
    \/ /\ FirstRow(rows, a) = FirstRow(rows, b)
       /\ PlaceIn(rows[FirstRow(rows, a)], a) < PlaceIn(rows[FirstRow(rows, a)], b)

\* rows in which the key is present with a non-null value
PresentRows(rows, key) ==
    {i \in DOMAIN rows : \E j \in DOMAIN rows[i] :
        rows[i][j].k = key /\ rows[i][j].v # Null}

\* distinct non-null values of the key
ValueOf(row, key) == row[PlaceIn(row, key)].v
DistinctValues(rows, key) ==
    {ValueOf(rows[i], key) : i \in PresentRows(rows, key)}

\* h hundredths is count / n * 100 rounded to two decimals
IsRounded(h, count, n) ==
    /\ 2 * (h * n - 10000 * count) <= n
    /\ 2 * (10000 * count - h * n) <= n

SpecExampleRows ==
    << <<[k |-> k_Created_At, v |-> Scalar(1)], [k |-> k_created_at_utc, v |-> Null]>>,
       <<[k |-> k_Created_At, v |-> Scalar(2)], [k |-> k_created_at_utc, v |-> Null]>>,
       <<[k |-> k_Created_At, v |-> Null], [k |-> k_created_at_utc, v |-> Null]>> >>

\* C5: for N >= 1 rows the metrics hold exactly one entry per key of the
\* union of the rows' keys, in order of first appearance, with completeness
\* = present non-null rows / N * 100 and uniqueness = distinct non-null
\* values / N * 100, rounded to two decimals, N the total row count; for 0
\* rows the metrics are empty.  The rows [{a:1,b:null},{a:2,b:null},
\* {a:null,b:null}] give a = (66.67, 66.67) and b = (0.0, 0.0).
C5_ColumnStatistics ==
    AnalyzeReturned =>
        LET m == result.metrics IN
        /\ N = 0 => m = <<>>
        /\ N >= 1 =>
              /\ {m[i].column : i \in DOMAIN m} = KeysOf(ReqRows)
              /\ Len(m) = Cardinality(KeysOf(ReqRows))
              /\ \A i, j \in DOMAIN m :
                    i < j => AppearsBefore(ReqRows, m[i].column, m[j].column)
              /\ \A i \in DOMAIN m :
                    /\ IsRounded(m[i].completeness,
                                 Cardinality(PresentRows(ReqRows, m[i].column)), N)
                    /\ IsRounded(m[i].uniqueness,
                                 Cardinality(DistinctValues(ReqRows, m[i].column)), N)
        /\ ReqRows = SpecExampleRows =>
              m = << [column |-> k_Created_At, completeness |-> 6667,
                      uniqueness |-> 6667],
                     [column |-> k_created_at_utc, completeness |-> 0,
                      uniqueness |-> 0] >>

\* C5 witness: the report of the example rows
C5_Witness == AnalyzeReturned /\ ReqRows = SpecExampleRows

\* the keys whose lowercased name is exactly a candidate name
CandidateKeys(rows) == {key \in KeysOf(rows) : Lower(key) \in timestamp_candidates}

\* the candidate key that appears first
FirstCandidateKey(rows) ==
    CHOOSE key \in CandidateKeys(rows) :
        \A other \in CandidateKeys(rows) \ {key} : AppearsBefore(rows, key, other)

\* the largest of a non-empty set of values
Largest(values) == CHOOSE x \in values : \A y \in values : y.v <= x.v

\* C6: the timestamp column is the first column whose lowercased name is
\* exactly a candidate name.  With such a column and a non-empty dataset the
\* status is ACTIVE with lastUpdated the string form of the column's maximum
\* when there is a non-null value, and NO DATA with lastUpdated null when
\* there is none, even if a later candidate column holds values; without
\* such a column, or with an empty dataset, the status is NO TIMESTAMP with
\* lastUpdated null.  The status is never UNKNOWN and lastUpdated is non-null
\* exactly when the status is ACTIVE.
C6_Freshness ==
    AnalyzeReturned =>
        LET f == result.freshness IN
        /\ IF CandidateKeys(ReqRows) = {} \/ N = 0
           THEN f = [lastUpdated |-> None, status |-> "NO TIMESTAMP"]
           ELSE LET values == DistinctValues(ReqRows, FirstCandidateKey(ReqRows)) IN
                IF values = {}
                THEN f = [lastUpdated |-> None, status |-> "NO DATA"]
                ELSE f = [lastUpdated |-> Some(StrValue(Largest(values))),
                          status |-> "ACTIVE"]
        /\ f.status # "UNKNOWN"
        /\ (f.lastUpdated # None) <=> (f.status = "ACTIVE")

\* C6 witness: the first candidate column holds no value, a later candidate
\* column and a column whose name only contains a candidate do
C6_Witness ==
    /\ AnalyzeReturned
    /\ result.freshness.status = "NO DATA"
    /\ CandidateKeys(ReqRows) = {k_Created_At, k_updated_at}
    /\ DistinctValues(ReqRows, k_updated_at) # {}
    /\ DistinctValues(ReqRows, k_created_at_utc) # {}

\* the findings of the returned metrics from index i on
RECURSIVE FindingsFrom(_, _)
FindingsFrom(m, i) ==
    IF i > Len(m) THEN <<>>
    ELSE (IF m[i].completeness < 5000 THEN <<LowCompletenessRisk(m[i])>> ELSE <<>>)
         \o (IF m[i].uniqueness < 1000 THEN <<LowUniquenessRisk(m[i])>> ELSE <<>>)
         \o FindingsFrom(m, i + 1)

FreshnessFinding ==
    IF result.freshness.status = "NO TIMESTAMP" THEN <<NoTimestampRisk>> ELSE <<>>

\* C7 as stated: the no-data finding comes first if and only if the dataset
\* has zero rows; then per column metric, in column order, a low-completeness
\* finding iff completeness < 50 followed by a low-uniqueness finding iff
\* uniqueness < 10; last the freshness-unavailable finding iff the status is
\* NO TIMESTAMP; and nothing else.
C7_RisksAsStated ==
    AnalyzeReturned =>
        result.risks = (IF N = 0 THEN <<NoDataRisk>> ELSE <<>>)
                       \o FindingsFrom(result.metrics, 1)
                       \o FreshnessFinding

\* C7 amended: as stated, but the no-data finding comes first if and only if
\* the dataset has zero rows or none of its rows has any key.
C7_Risks ==
    AnalyzeReturned =>
        /\ result.risks = (IF N = 0 \/ KeysOf(ReqRows) = {}
                           THEN <<NoDataRisk>> ELSE <<>>)
                          \o FindingsFrom(result.metrics, 1)
                          \o FreshnessFinding
        /\ N = 0 => /\ result.metrics = <<>>
                    /\ result.freshness.status = "NO TIMESTAMP"
                    /\ result.risks = <<NoDataRisk, NoTimestampRisk>>

\* C7 witness: with more than ten rows one column contributes both
\* findings and another only the low-uniqueness finding
C7_Witness ==
    /\ AnalyzeReturned
    /\ N > 10
    /\ Len(result.metrics) = 2
    /\ Len(result.risks) = 3
    /\ result.metrics[1].completeness = 0
    /\ result.metrics[2].completeness = 10000
    /\ result.metrics[2].uniqueness < 1000

-----------------------------------------------------------------------------
(* Properties of build_fallback_summary *)

Built == op = "build_fallback_summary" /\ pc = "done"

\* the inputs and the text of a finished build
InTable == table_name
InColumns == columns.v
Narrative == result.text

\* the names of the columns that satisfy a test, in column order
NamesWhere(cols, test(_)) ==
    LET kept == SelectSeq(cols, test) IN [i \in DOMAIN kept |-> kept[i].name]

HasToken(col, tokens) ==
    \E tok \in tokens : Contains(normalize_column_name(col.name), tok)

IsIdentifier(col) ==
    LET n == normalize_column_name(col.name) IN
    n = <<"i","d">> \/ (Len(n) >= 3 /\ SubSeq(n, Len(n) - 2, Len(n)) = <<"_","i","d">>)
IsTimestamp(col) == HasToken(col, {t_date, t_time, t_created, t_updated, t_modified})
IsMonetary(col) ==
    HasToken(col, {t_amount, t_price, t_total, t_balance, t_cost, t_value})
IsStatus(col) == HasToken(col, {t_status, t_state, t_flag, t_active, t_enabled})
IsPrimaryKey(col) == "isPrimaryKey" \in DOMAIN col /\ col.isPrimaryKey
IsForeignKey(col) == "isForeignKey" \in DOMAIN col /\ col.isForeignKey

\* the fragment that opens a signal sentence
Opening(Signal(_)) == Head(Signal(<<>>))

\* the category's sentence lists exactly the names, or is absent when there
\* are none
ListedAs(names, Signal(_)) ==
    IF names = <<>>
    THEN Opening(Signal) \notin Range(Narrative)
    ELSE Contains(Narrative, Signal(names))

MentionsRelationship == Lit(RelationshipText) \in Range(Narrative)

\* C9: the four categories are independent tests on the normalized column
\* name only: identifier iff it ends with _id or equals id, timestamp,
\* monetary and status iff it contains one of the category's tokens.  A
\* column is listed in every sentence whose test it passes, in column order;
\* the key lists hold exactly the flagged columns; the relationship sentence
\* is used iff the normalized table name contains relationship or mapping.
\* For user_role_mapping with id, user_id, role_id the narrative mentions
\* relationship, lists user_id, role_id as identifiers and lists no keys.
C9_Classification ==
    Built =>
        /\ ListedAs(NamesWhere(InColumns, IsTimestamp), TimestampSignal)
        /\ ListedAs(NamesWhere(InColumns, IsMonetary), AmountSignal)
        /\ ListedAs(NamesWhere(InColumns, IsStatus), StatusSignal)
        /\ ListedAs(NamesWhere(InColumns, IsIdentifier), IdSignal)
        /\ Contains(Narrative, key_structure(NamesWhere(InColumns, IsPrimaryKey),
                                             NamesWhere(InColumns, IsForeignKey)))
        /\ LET nt == normalize_column_name(StrOf(InTable)) IN
           /\ MentionsRelationship
                 <=> (Contains(nt, t_relationship) \/ Contains(nt, t_mapping))
           /\ (Lit(EntityText) \in Range(Narrative)) <=> ~MentionsRelationship
        /\ (InTable = Some(tn_user_role_mapping) /\ InColumns = Window(1, 3)) =>
              /\ MentionsRelationship
              /\ Contains(Narrative,
                          <<Opening(IdSignal), Chars(t_id), Lit(", "), Chars(n_user_id),
                            Lit(", "), Chars(n_role_id), Lit(").")>>)
              /\ Opening(TimestampSignal) \notin Range(Narrative)
              /\ Lit(NoPrimaryKeyText) \in Range(Narrative)
              /\ Lit(NoForeignKeyText) \in Range(Narrative)

\* C9 witness: the narrative of user_role_mapping with id, user_id, role_id
C9_Witness ==
    Built /\ InTable = Some(tn_user_role_mapping) /\ InColumns = Window(1, 3)

Min(a, b) == IF a < b THEN a ELSE b

\* 'name (type)' of the first min(12, n) columns, ', ...' iff n > 12, the
\* 'no columns' text iff n = 0
PreviewAsStated(cols) ==
    IF Len(cols) = 0 THEN <<Lit("No columns were provided in the payload.")>>
    ELSE Join(<<Lit(", ")>>,
              [i \in 1 .. Min(12, Len(cols)) |->
                 <<Chars(cols[i].name), Lit(" ("),
                   Chars(IF "type" \in DOMAIN cols[i] THEN cols[i].type ELSE t_unknown),
                   Lit(")")>>])
         \o (IF Len(cols) > 12 THEN <<Lit(", ...")>> ELSE <<>>)

\* one sentence listing at most the first limit names, none without names
SignalAsStated(Signal(_), names, limit) ==
    IF names = <<>> THEN <<>>
    ELSE << <<Opening(Signal)>>
            \o CommaJoin(SubSeq(names, 1, Min(limit, Len(names))))
            \o <<Lit(").")>> >>

\* sentences (1) to (5) of the narrative
LeadingSentences ==
    << LeadSentence(InTable, InColumns),
       relationship_signal(normalize_column_name(StrOf(InTable))),
       key_structure(NamesWhere(InColumns, IsPrimaryKey),
                     NamesWhere(InColumns, IsForeignKey)),
       <<Lit("Schema preview: ")>> \o PreviewAsStated(InColumns) >>
    \o SignalAsStated(TimestampSignal, NamesWhere(InColumns, IsTimestamp), 6)
    \o SignalAsStated(AmountSignal, NamesWhere(InColumns, IsMonetary), 6)
    \o SignalAsStated(StatusSignal, NamesWhere(InColumns, IsStatus), 6)
    \o SignalAsStated(IdSignal, NamesWhere(InColumns, IsIdentifier), 8)

\* C10 as stated: the narrative is the lead sentence, the relationship or
\* entity sentence, the key-structure sentence, the schema preview, the
\* signal sentences and the closing recommendation, joined by single spaces,
\* with no other sentence between them.
C10_SentencesAsStated ==
    Built =>
        Narrative = Join(<<Lit(" ")>>, LeadingSentences \o <<RecommendedChecks>>)

\* C10 amended: as stated, with the fixed sentence on likely reporting usage
\* between the signal sentences and the closing recommendation.  With zero
\* columns the build returns (it does not raise).
C10_Sentences ==
    /\ Built =>
          Narrative = Join(<<Lit(" ")>>,
                           LeadingSentences \o <<analytics_use, RecommendedChecks>>)
    /\ (op = "build_fallback_summary" /\ columns = Some(<<>>)) => pc # "raised"

\* C10 witness: more than 12 columns, more than 6 timestamp, monetary and
\* status columns and more than 8 identifier columns
C10_Witness ==
    /\ Built
    /\ Len(InColumns) > 12
    /\ Len(NamesWhere(InColumns, IsTimestamp)) > 6
    /\ Len(NamesWhere(InColumns, IsMonetary)) > 6
    /\ Len(NamesWhere(InColumns, IsStatus)) > 6
    /\ Len(NamesWhere(InColumns, IsIdentifier)) > 8

=============================================================================
